---- MODULE Spec2Model ----
(***************************************************************************)
(* DescriptaStore (descriptastorus/DescriptaStore.py): the read facade     *)
(* over a columnar descriptor store (raw.RawStore), the molecule index     *)
(* (MolFileIndex) and the two optional kyotocabinet key stores, with its   *)
(* sequential iterator DescriptaStoreIter.                                 *)
(*                                                                         *)
(* Python values are modelled as follows.  A text is a sequence of tokens  *)
(* (a column name "MW_calculated" is <<"MW", "_calculated">>, the stored   *)
(* ordinal "12" is <<"1", "2">>).  An optional value is a record with a    *)
(* kind field.  The outcome of a call is a record                          *)
(* [kind |-> "return" | "raise", exc |-> exception class, val |-> value].  *)
(***************************************************************************)
EXTENDS Integers, Sequences, FiniteSets, TLC

\* ---------------------------------------------------------------- bounds

\* largest row count N of a store
MaxN == 2
\* largest number of declared columns
MaxCols == 3
\* how many calls to next past the end of the sequence are explored
MaxPast == 1
\* how many scans of the molecule index one facade is allowed to start
MaxScans == 3
\* how many lookupName calls each thread makes in the concurrent specification
MaxCalls == 1

\* ------------------------------------------------------------- the data

\* display names the records may carry, and the names looked up
Names == {"A", "B"}
LookupNames == Names \cup {"Z"}

\* content keys looked up
InchiKeys == {"AAA", "BBB", "ZZZ"}

\* declared column names, as token sequences
ColNameSet ==
    { <<"MW">>, <<"LogP">>, <<"MW", "_calculated">>, <<"n", "_calculated", "_atoms">> }

\* the column list of the documented example store
ExampleCols == << <<"MW">>, <<"LogP">>, <<"MW", "_calculated">> >>

Threads == {1, 2}

VARIABLES
    db,             \* raw.RawStore: [N, colnames, bad], bad = ordinals whose row cannot be read
    index,          \* MolFileIndex: [names, bad], bad = ordinals whose record cannot be read
    kyotocabinet,   \* module global: TRUE when the import succeeded
    MakeGenerator,  \* module global: "None", or how the installed engine behaves
    inchiExists,    \* os.path.exists(dbdir/inchikey.kch)
    nameExists,     \* os.path.exists(dbdir/name.kch)
    optionsfile,    \* dbdir/__options__: "absent", or which blob was pickled
    inchikey,       \* self.inchikey: "unset" (no such attribute), "None" or "DB"
    name,           \* self.name: [kind |-> "None" | "DB" | "dict", map]
    options,        \* self.options: [kind |-> "None" | "dict", map]
    datanames,      \* self.datanames
    dataindices,    \* self.dataindices
    open,           \* the handles currently open
    closed,         \* close() has been called
    it,             \* the iterator: [live, i]
    ncalls,         \* calls to next made on the iterator
    scans,          \* scans of the molecule index started
    result,         \* the last call and its outcome
    pc,             \* per thread: where it stands inside lookupName
    targ,           \* per thread: the name it looks up
    tcalls,         \* per thread: calls made
    tres            \* per thread: the outcome of its last call

cfgvars == <<db, index, kyotocabinet, MakeGenerator, inchiExists, nameExists, optionsfile>>
selfvars == <<inchikey, name, options, datanames, dataindices, open, closed>>
thrvars == <<pc, targ, tcalls, tres>>
vars == <<cfgvars, selfvars, it, ncalls, scans, result, thrvars>>

\* --------------------------------------------------------------- values

None == [kind |-> "None", map |-> <<>>]

Return(v) == [kind |-> "return", exc |-> "", val |-> v]

Raise(e) == [kind |-> "raise", exc |-> e, val |-> <<>>]

Range(s) == { s[k] : k \in 1..Len(s) }

DigitChars == <<"0", "1", "2", "3", "4", "5", "6", "7", "8", "9">>

RECURSIVE str(_)
\* the decimal text of a natural number
str(n) ==
    IF n < 10 THEN <<DigitChars[n + 1]>>
    ELSE Append(str(n \div 10), DigitChars[(n % 10) + 1])

IsNumeral(s) == Len(s) > 0 /\ \A k \in 1..Len(s) : s[k] \in Range(DigitChars)

DigitVal(c) == (CHOOSE d \in 1..10 : DigitChars[d] = c) - 1

RECURSIVE intval(_)
intval(s) ==
    IF Len(s) = 1 THEN DigitVal(s[1])
    ELSE 10 * intval(SubSeq(s, 1, Len(s) - 1)) + DigitVal(s[Len(s)])

\* int(x): x is an optional text; None and a malformed text raise
int(x) ==
    IF x.kind = "None" THEN Raise("TypeError")
    ELSE IF ~IsNumeral(x.val) THEN Raise("ValueError")
    ELSE Return(intval(x.val))

\* ------------------------------------------------------ the collaborators

\* the value the columnar store holds for ordinal o in the column at position c
Cell(o, c) == 10 * o + c

\* raw.RawStore.get(idx): the full row, one value per declared column
dbget(idx) ==
    IF idx \notin 0..(db.N - 1) THEN Raise("IndexError")
    ELSE IF idx \in db.bad THEN Raise("IOError")
    ELSE Return([c \in 1..Len(db.colnames) |-> Cell(idx, c - 1)])

\* raw.RawStore.getDict(idx): the row keyed by column name
dbgetDict(idx) ==
    IF idx \notin 0..(db.N - 1) THEN Raise("IndexError")
    ELSE IF idx \in db.bad THEN Raise("IOError")
    ELSE Return([cn \in Range(db.colnames) |->
                   Cell(idx, (CHOOSE c \in 1..Len(db.colnames) :
                                 /\ db.colnames[c] = cn
                                 /\ \A c2 \in 1..Len(db.colnames) :
                                        db.colnames[c2] = cn => c2 <= c) - 1)])

\* MolFileIndex.get(i): the source record (moldata, name) of ordinal i
indexget(i) ==
    IF i \notin 0..(Len(index.names) - 1) THEN Raise("IndexError")
    ELSE IF i \in index.bad THEN Raise("IOError")
    ELSE Return(<<i, index.names[i + 1]>>)

\* a kyotocabinet.DB read: the stored text, or None for a missing key
kchget(store, key) ==
    IF key \in DOMAIN store THEN [kind |-> "text", val |-> store[key]]
    ELSE [kind |-> "None", val |-> <<>>]

\* the ordinals whose record carries the name nm
Carrying(nm) == { o \in 0..(Len(index.names) - 1) : index.names[o + 1] = nm }

Max(S) == CHOOSE x \in S : \A y \in S : y <= x

\* name.kch as the build pipeline wrote it: name -> text of the ordinal, last write wins
NameKch == [nm \in Range(index.names) |-> str(Max(Carrying(nm)))]

\* the content key of the record at ordinal o
InchiOf(o) == IF o % 2 = 0 THEN "AAA" ELSE "BBB"

RECURSIVE reprList(_)
\* the text of the elements of a list of ordinals, comma separated: "0,2" is <<"0", ",", "2">>
reprList(s) ==
    IF Len(s) = 0 THEN <<>>
    ELSE IF Len(s) = 1 THEN str(s[1])
    ELSE str(s[1]) \o <<",">> \o reprList(Tail(s))

RECURSIVE SortedSeq(_)
SortedSeq(S) ==
    IF S = {} THEN <<>>
    ELSE LET m == CHOOSE x \in S : \A y \in S : x <= y
         IN  <<m>> \o SortedSeq(S \ {m})

\* inchikey.kch as the build pipeline wrote it: key -> text of the list of ordinals
InchiKch ==
    [k \in { InchiOf(o) : o \in 0..(db.N - 1) } |->
        <<"[">> \o reprList(SortedSeq({ o \in 0..(db.N - 1) : InchiOf(o) = k })) \o <<"]">>]

RECURSIVE split(_, _)
\* text.split(sep): the pieces between the separators
split(s, sep) ==
    IF \A k \in 1..Len(s) : s[k] # sep THEN <<s>>
    ELSE LET k == CHOOSE j \in 1..Len(s) : s[j] = sep /\ \A j2 \in 1..(j - 1) : s[j2] # sep
         IN  <<SubSeq(s, 1, k - 1)>> \o split(SubSeq(s, k + 1, Len(s)), sep)

\* eval(text) of a stored list of ordinals
eval(s) ==
    LET inner == SubSeq(s, 2, Len(s) - 1)
        parts == IF Len(inner) = 0 THEN <<>> ELSE split(inner, ",")
    IN  [k \in 1..Len(parts) |-> intval(parts[k])]

\* pickle.load of __options__
Unpickle(file) ==
    IF file = "desc"
    THEN [kind |-> "dict", map |-> [k \in {"descriptors"} |-> <<"RDKit2D", ",", "Morgan3">>]]
    ELSE [kind |-> "dict", map |-> [k \in {"version"} |-> <<"1">>]]

\* ------------------------------------------------ DescriptaStore.__init__

\* "_calculated" not in name
IsDataName(cn) == \A k \in 1..Len(cn) : cn[k] # "_calculated"

\* enumerate(seq): the pairs (position from 0, element)
enumerate(s) == [k \in 1..Len(s) |-> <<k - 1, s[k]>>]

datacols(colnames) == SelectSeq(enumerate(colnames), LAMBDA p : IsDataName(p[2]))

InitDatanames(colnames) ==
    [k \in 1..Len(datacols(colnames)) |-> datacols(colnames)[k][2]]

InitDataindices(colnames) ==
    [k \in 1..Len(datacols(colnames)) |-> datacols(colnames)[k][1]]

InitInchikey(exists, kc) ==
    IF exists THEN (IF ~kc THEN "unset" ELSE "DB") ELSE "None"

InitName(exists, kc) ==
    IF exists THEN (IF ~kc THEN None ELSE [kind |-> "DB", map |-> <<>>]) ELSE None

InitOptions(file) == IF file # "absent" THEN Unpickle(file) ELSE None

InitOpen(ie, ne, kc) ==
    {"db", "index"}
      \cup (IF InitInchikey(ie, kc) = "DB" THEN {"inchikey"} ELSE {})
      \cup (IF InitName(ne, kc).kind = "DB" THEN {"name"} ELSE {})

NoResult == [op |-> "none", arg |-> <<>>, kind |-> "return", exc |-> "", val |-> <<>>, out |-> <<>>]

\* the state after DescriptaStore(dbdir) on the store and environment given
Constructed(n, cols, nms, dbad, ibad, kc, mg, ie, ne, of) ==
    /\ db = [N |-> n, colnames |-> cols, bad |-> dbad]
    /\ index = [names |-> nms, bad |-> ibad]
    /\ kyotocabinet = kc
    /\ MakeGenerator = mg
    /\ inchiExists = ie
    /\ nameExists = ne
    /\ optionsfile = of
    /\ inchikey = InitInchikey(ie, kc)
    /\ name = InitName(ne, kc)
    /\ options = InitOptions(of)
    /\ datanames = InitDatanames(cols)
    /\ dataindices = InitDataindices(cols)
    /\ open = InitOpen(ie, ne, kc)
    /\ closed = FALSE
    /\ it = [live |-> FALSE, i |-> -1]
    /\ ncalls = 0
    /\ scans = 0
    /\ result = NoResult
    /\ pc = [t \in Threads |-> "idle"]
    /\ targ = [t \in Threads |-> "A"]
    /\ tcalls = [t \in Threads |-> 0]
    /\ tres = [t \in Threads |-> NoResult]

RECURSIVE SeqsUpTo(_, _)
\* the sequences over S of length at most n
SeqsUpTo(S, n) ==
    IF n = 0 THEN { <<>> }
    ELSE LET shorter == SeqsUpTo(S, n - 1)
         IN  shorter \cup { Append(s, x) : s \in shorter, x \in S }

Engines == {"None", "builds", "raises"}
OptionFiles == {"absent", "nodesc", "desc"}

\* ------------------------------------------------------- the read calls

Res(op, arg, o, out) ==
    [op |-> op, arg |-> arg, kind |-> o.kind, exc |-> o.exc, val |-> o.val, out |-> out]

\* DescriptaStore.__len__
len == db.N

\* DescriptaStore.getDescriptorNames
getDescriptorNames(keepCalculatedFlags) ==
    IF keepCalculatedFlags THEN Return(db.colnames) ELSE Return(datanames)

\* getDescriptors taking the first len(dataindices) values of the row
getDescriptors_leading(idx, keepCalculatedFlags) ==
    LET v == dbget(idx)
    IN  IF v.kind = "raise" THEN v
        ELSE IF keepCalculatedFlags THEN v
        ELSE Return([k \in 1..Len(dataindices) |-> v.val[k]])

\* DescriptaStore.getDescriptors
getDescriptors(idx, keepCalculatedFlags) ==
    LET v == dbget(idx)
    IN  IF v.kind = "raise" THEN v
        ELSE IF keepCalculatedFlags THEN v
        ELSE Return([k \in 1..Len(dataindices) |-> v.val[dataindices[k] + 1]])

\* DescriptaStore.getDescriptorsAsDict
getDescriptorsAsDict(idx) == dbgetDict(idx)

\* MakeGenerator(self.options['descriptors'].split(",")), the body of the try
MakeGeneratorCall ==
    IF options.kind = "None" THEN Raise("TypeError")
    ELSE IF "descriptors" \notin DOMAIN options.map THEN Raise("KeyError")
    ELSE IF MakeGenerator = "None" THEN Raise("TypeError")
    ELSE IF MakeGenerator = "raises" THEN Raise("Exception")
    ELSE Return([kind |-> "calculator", map |-> split(options.map["descriptors"], ",")])

\* getDescriptorCalculator catching only the failures of reading self.options
getDescriptorCalculator_narrowExcept ==
    LET r == MakeGeneratorCall
    IN  IF r.kind = "raise" /\ r.exc \in {"KeyError"} THEN Return(None) ELSE r

\* DescriptaStore.getDescriptorCalculator
getDescriptorCalculator ==
    LET r == MakeGeneratorCall
    IN  IF r.kind = "raise" THEN Return(None) ELSE r

\* DescriptaStore.lookupInchiKey
lookupInchiKey(key) ==
    IF inchikey = "unset" THEN Raise("AttributeError")
    ELSE IF inchikey = "None" THEN Raise("ValueError")
    ELSE LET strres == kchget(InchiKch, key)
         IN  IF strres.kind = "None" THEN Raise("KeyError")
             ELSE Return(eval(strres.val))

\* ------------------------------------------------------------ lookupName

RECURSIVE DictOf_fromOne(_)
\* the comprehension over enumerate(records, 1)
DictOf_fromOne(pairs) ==
    IF Len(pairs) = 0 THEN <<>>
    ELSE LET lst == pairs[Len(pairs)]
             rest == DictOf_fromOne(SubSeq(pairs, 1, Len(pairs) - 1))
         IN  [k \in (DOMAIN rest) \cup {lst[2][2]} |->
                 IF k = lst[2][2] THEN lst[1] + 1 ELSE rest[k]]

RECURSIVE DictOf(_)
\* {name: i for i, (moldata, name) in enumerate(records)}: a later pair replaces an earlier one
DictOf(pairs) ==
    IF Len(pairs) = 0 THEN <<>>
    ELSE LET lst == pairs[Len(pairs)]
             rest == DictOf(SubSeq(pairs, 1, Len(pairs) - 1))
         IN  [k \in (DOMAIN rest) \cup {lst[2][2]} |->
                 IF k = lst[2][2] THEN lst[1] ELSE rest[k]]

\* the scan of the molecule index: every record is read in turn
ScanIndex ==
    IF \E i \in 0..(Len(index.names) - 1) : indexget(i).kind = "raise"
    THEN Raise("IOError")
    ELSE Return(DictOf(enumerate([k \in 1..Len(index.names) |-> indexget(k - 1).val])))

\* int(self.name[name]) inside its try
NameRow(h, nm) ==
    LET got == IF h.kind = "DB" THEN int(kchget(NameKch, nm))
               ELSE IF nm \in DOMAIN h.map THEN Return(h.map[nm])
               ELSE Raise("KeyError")
    IN  IF got.kind = "raise" THEN Raise("IndexError") ELSE got

\* lookupName leaving an empty mapping behind when the scan fails
lookupName_emptyOnFailure(h, nm) ==
    IF h.kind = "None"
    THEN LET s == ScanIndex
         IN  IF s.kind = "raise"
             THEN [out |-> Raise("ValueError"), name |-> [kind |-> "dict", map |-> <<>>],
                   scanned |-> 1]
             ELSE LET h2 == [kind |-> "dict", map |-> s.val]
                  IN  [out |-> NameRow(h2, nm), name |-> h2, scanned |-> 1]
    ELSE [out |-> NameRow(h, nm), name |-> h, scanned |-> 0]

\* DescriptaStore.lookupName on handle h: the outcome, the handle left, and the scans started
lookupName(h, nm) ==
    IF h.kind = "None"
    THEN LET s == ScanIndex
         IN  IF s.kind = "raise"
             THEN [out |-> Raise("ValueError"), name |-> h, scanned |-> 1]
             ELSE LET h2 == [kind |-> "dict", map |-> s.val]
                  IN  [out |-> NameRow(h2, nm), name |-> h2, scanned |-> 1]
    ELSE [out |-> NameRow(h, nm), name |-> h, scanned |-> 0]

\* ----------------------------------------------------------------- close

\* DescriptaStore.close: the outcome and the handles left open
close ==
    LET o1 == open \ {"db", "index"}
    IN  IF inchikey = "unset" THEN [out |-> Raise("AttributeError"), open |-> o1]
        ELSE LET o2 == IF inchikey # "None" THEN o1 \ {"inchikey"} ELSE o1
             IN  IF name.kind = "None" THEN [out |-> Return(None), open |-> o2]
                 ELSE IF name.kind = "DB" THEN [out |-> Return(None), open |-> o2 \ {"name"}]
                 ELSE [out |-> Raise("AttributeError"), open |-> o2]

\* ---------------------------------------------------- DescriptaStoreIter

\* next testing the position against len(self.store) - 1
next_shortByOne(i) ==
    LET i1 == i + 1
    IN  IF i1 = len - 1 THEN [i |-> i1, out |-> Raise("StopIteration"), text |-> <<>>]
        ELSE LET a == indexget(i1)
                 b == getDescriptors(i1, FALSE)
                 failed == <<"== DescriptaStoreIter Failed at index", i1>>
             IN  IF a.kind = "raise" THEN [i |-> i1, out |-> a, text |-> failed]
                 ELSE IF b.kind = "raise" THEN [i |-> i1, out |-> b, text |-> failed]
                 ELSE [i |-> i1, out |-> Return(<<a.val, b.val>>), text |-> <<>>]

\* DescriptaStoreIter.next from position i: the position left, the outcome, the line written
next(i) ==
    LET i1 == i + 1
    IN  IF i1 = len THEN [i |-> i1, out |-> Raise("StopIteration"), text |-> <<>>]
        ELSE LET a == indexget(i1)
                 b == getDescriptors(i1, FALSE)
                 failed == <<"== DescriptaStoreIter Failed at index", i1>>
             IN  IF a.kind = "raise" THEN [i |-> i1, out |-> a, text |-> failed]
                 ELSE IF b.kind = "raise" THEN [i |-> i1, out |-> b, text |-> failed]
                 ELSE [i |-> i1, out |-> Return(<<a.val, b.val>>), text |-> <<>>]

\* -------------------------------------------------------------- actions

Do_len ==
    /\ ~closed
    /\ result' = Res("len", <<>>, Return(len), <<>>)
    /\ UNCHANGED <<cfgvars, selfvars, it, ncalls, scans, thrvars>>

Do_iter ==
    /\ ~closed
    /\ it' = [live |-> TRUE, i |-> -1]
    /\ ncalls' = 0
    /\ result' = Res("iter", <<>>, Return(<<>>), <<>>)
    /\ UNCHANGED <<cfgvars, selfvars, scans, thrvars>>

Do_next ==
    /\ ~closed
    /\ it.live
    /\ it.i < len + MaxPast
    /\ LET r == next(it.i)
       IN  /\ it' = [it EXCEPT !.i = r.i]
           /\ result' = Res("next", <<>>, r.out, r.text)
    /\ ncalls' = ncalls + 1
    /\ UNCHANGED <<cfgvars, selfvars, scans, thrvars>>

Do_getDescriptorNames ==
    /\ ~closed
    /\ \E keep \in BOOLEAN :
          result' = Res("getDescriptorNames", <<keep>>, getDescriptorNames(keep), <<>>)
    /\ UNCHANGED <<cfgvars, selfvars, it, ncalls, scans, thrvars>>

Do_getDescriptors ==
    /\ ~closed
    /\ \E idx \in 0..db.N, keep \in BOOLEAN :
          result' = Res("getDescriptors", <<idx, keep>>, getDescriptors(idx, keep), <<>>)
    /\ UNCHANGED <<cfgvars, selfvars, it, ncalls, scans, thrvars>>

Do_getDescriptorsAsDict ==
    /\ ~closed
    /\ \E idx \in 0..db.N :
          result' = Res("getDescriptorsAsDict", <<idx>>, getDescriptorsAsDict(idx), <<>>)
    /\ UNCHANGED <<cfgvars, selfvars, it, ncalls, scans, thrvars>>

Do_getDescriptorCalculator ==
    /\ ~closed
    /\ result' = Res("getDescriptorCalculator", <<>>, getDescriptorCalculator, <<>>)
    /\ UNCHANGED <<cfgvars, selfvars, it, ncalls, scans, thrvars>>

Do_lookupName ==
    /\ ~closed
    /\ \E nm \in LookupNames :
          LET r == lookupName(name, nm)
          IN  /\ scans + r.scanned <= MaxScans
              /\ name' = r.name
              /\ scans' = scans + r.scanned
              /\ result' = Res("lookupName", <<nm>>, r.out, <<>>)
    /\ UNCHANGED <<cfgvars, inchikey, options, datanames, dataindices, open, closed>>
    /\ UNCHANGED <<it, ncalls, thrvars>>

Do_lookupInchiKey ==
    /\ ~closed
    /\ \E key \in InchiKeys :
          result' = Res("lookupInchiKey", <<key>>, lookupInchiKey(key), <<>>)
    /\ UNCHANGED <<cfgvars, selfvars, it, ncalls, scans, thrvars>>

Do_close ==
    /\ ~closed
    /\ LET r == close
       IN  /\ open' = r.open
           /\ result' = Res("close", <<>>, r.out, <<>>)
    /\ closed' = TRUE
    /\ UNCHANGED <<cfgvars, inchikey, name, options, datanames, dataindices>>
    /\ UNCHANGED <<it, ncalls, scans, thrvars>>

\* ------------------------------------------------------- specifications

\* the names of a store whose records are named A, B, A, ... in turn
AlternatingNames(n) == [k \in 1..n |-> IF k % 2 = 1 THEN "A" ELSE "B"]

\* at most the last record of the molecule index is unreadable
LastBad(n) == { {} } \cup (IF n > 0 THEN { {n - 1} } ELSE {})

\* the example store with 0..MaxN rows, in every environment
Init ==
    \E n \in 0..MaxN, kc \in BOOLEAN, ie \in BOOLEAN, ne \in BOOLEAN,
       mg \in Engines, of \in OptionFiles :
    \E ibad \in LastBad(n) :
        Constructed(n, ExampleCols, AlternatingNames(n), {}, ibad, kc, mg, ie, ne, of)

Next ==
    \/ Do_len
    \/ Do_iter
    \/ Do_next
    \/ Do_getDescriptorNames
    \/ Do_getDescriptors
    \/ Do_getDescriptorsAsDict
    \/ Do_getDescriptorCalculator
    \/ Do_lookupName
    \/ Do_lookupInchiKey
    \/ Do_close

Spec == Init /\ [][Next]_vars

\* every store of the bounds with every fetch failure, all optional artifacts present
InitIter ==
    \E n \in 0..MaxN :
    \E nms \in [1..n -> Names], dbad \in SUBSET (0..(n - 1)), ibad \in SUBSET (0..(n - 1)) :
        Constructed(n, ExampleCols, nms, dbad, ibad, TRUE, "builds", TRUE, TRUE, "desc")

NextIter ==
    \/ Do_iter
    \/ Do_next

SpecIter == InitIter /\ [][NextIter]_vars

\* every column list of the bounds
InitCols ==
    \E n \in 0..MaxN, cols \in SeqsUpTo(ColNameSet, MaxCols) :
    \E dbad \in LastBad(n) :
        Constructed(n, cols, AlternatingNames(n), dbad, {}, TRUE, "builds", TRUE, TRUE, "desc")

NextCols ==
    \/ Do_getDescriptorNames
    \/ Do_getDescriptors
    \/ Do_getDescriptorsAsDict

SpecCols == InitCols /\ [][NextCols]_vars

\* every naming of the records, with and without the persistent name index
InitNames ==
    \E n \in 0..MaxN, kc \in BOOLEAN, ne \in BOOLEAN :
    \E nms \in [1..n -> Names], ibad \in SUBSET (0..(n - 1)) :
        Constructed(n, ExampleCols, nms, {}, ibad, kc, "builds", FALSE, ne, "absent")

NextName == Do_lookupName

SpecName == InitNames /\ [][NextName]_vars

\* ------------------------------------------- lookupName, thread by thread

\* a thread enters lookupName(nm)
T_call(t) ==
    /\ pc[t] = "idle"
    /\ tcalls[t] < MaxCalls
    /\ \E nm \in LookupNames : targ' = [targ EXCEPT ![t] = nm]
    /\ tcalls' = [tcalls EXCEPT ![t] = @ + 1]
    /\ pc' = [pc EXCEPT ![t] = "check"]
    /\ UNCHANGED <<cfgvars, selfvars, it, ncalls, scans, result, tres>>

\* if self.name is None
T_check(t) ==
    /\ pc[t] = "check"
    /\ pc' = [pc EXCEPT ![t] = IF name.kind = "None" THEN "scan" ELSE "lookup"]
    /\ UNCHANGED <<cfgvars, selfvars, it, ncalls, scans, result, targ, tcalls, tres>>

\* the comprehension over enumerate(self.index), or its failure
T_scan(t) ==
    /\ pc[t] = "scan"
    /\ scans' = scans + 1
    /\ IF ScanIndex.kind = "raise"
       THEN /\ tres' = [tres EXCEPT ![t] = Res("lookupName", <<targ[t]>>, Raise("ValueError"), <<>>)]
            /\ pc' = [pc EXCEPT ![t] = "idle"]
       ELSE /\ tres' = tres
            /\ pc' = [pc EXCEPT ![t] = "store"]
    /\ UNCHANGED <<cfgvars, selfvars, it, ncalls, result, targ, tcalls>>

\* self.name = the mapping built
T_store(t) ==
    /\ pc[t] = "store"
    /\ name' = [kind |-> "dict", map |-> ScanIndex.val]
    /\ pc' = [pc EXCEPT ![t] = "lookup"]
    /\ UNCHANGED <<cfgvars, inchikey, options, datanames, dataindices, open, closed>>
    /\ UNCHANGED <<it, ncalls, scans, result, targ, tcalls, tres>>

\* row = int(self.name[name]), and the return
T_lookup(t) ==
    /\ pc[t] = "lookup"
    /\ tres' = [tres EXCEPT ![t] = Res("lookupName", <<targ[t]>>, NameRow(name, targ[t]), <<>>)]
    /\ pc' = [pc EXCEPT ![t] = "idle"]
    /\ UNCHANGED <<cfgvars, selfvars, it, ncalls, scans, result, targ, tcalls>>

\* a readable store without the persistent name index
InitConc ==
    \E n \in 0..MaxN, kc \in BOOLEAN :
    \E nms \in [1..n -> Names] :
        Constructed(n, ExampleCols, nms, {}, {}, kc, "builds", FALSE, FALSE, "absent")

NextConc ==
    \E t \in Threads :
        \/ T_call(t)
        \/ T_check(t)
        \/ T_scan(t)
        \/ T_store(t)
        \/ T_lookup(t)

SpecConc == InitConc /\ [][NextConc]_vars

\* ---------------------------------------------------------------- claims

\* a calculation-status column, by the naming convention
IsCalcStatus(cn) == \E k \in 1..Len(cn) : cn[k] = "_calculated"

\* the positions (from 1) of the columns that are not calculation-status columns, ascending
DataPositions == SortedSeq({ c \in 1..Len(db.colnames) : ~IsCalcStatus(db.colnames[c]) })

\* the flags-excluded descriptors of ordinal o
DataRow(o) == [k \in 1..Len(DataPositions) |-> Cell(o, DataPositions[k] - 1)]

AllFetchesSucceed == db.bad = {} /\ index.bad = {}

\* C1: when every fetch succeeds, the k-th call to next on a fresh iterator, for
\* k = 1..N, returns the pair (source record of ordinal k-1, flags-excluded
\* descriptors of ordinal k-1), and call N+1 raises StopIteration (call 1 when N = 0).
C1_IterationYieldsAllThenStops ==
    (result.op = "next" /\ AllFetchesSucceed) =>
        /\ (ncalls <= db.N) =>
              /\ result.kind = "return"
              /\ result.val = << <<ncalls - 1, index.names[ncalls]>>, DataRow(ncalls - 1) >>
        /\ (ncalls = db.N + 1) =>
              /\ result.kind = "raise"
              /\ result.exc = "StopIteration"

C1_Witness ==
    /\ result.op = "next"
    /\ AllFetchesSucceed
    /\ db.N = 2
    /\ ncalls = 3
    /\ result.exc = "StopIteration"

\* what lookupName(nm) owes its caller: an ordinal carrying nm, or IndexError
LookupRight(r) ==
    IF Carrying(r.arg[1]) # {}
    THEN r.kind = "return" /\ r.val \in 0..(db.N - 1) /\ r.val \in Carrying(r.arg[1])
    ELSE r.kind = "raise" /\ r.exc = "IndexError"

\* the name handle was left unset by open and the molecule index cannot be scanned
ScanFails == ~(nameExists /\ kyotocabinet) /\ index.bad # {}

\* C2 as stated: on either path lookupName returns an ordinal carrying the name, or
\* raises IndexError for a name no record carries, never ValueError.
C2_LookupAlwaysRight == result.op = "lookupName" => LookupRight(result)

\* C2 amended: the same, provided the scan of the molecule index, where one is needed,
\* succeeds; where it fails the call raises ValueError for every name.
C2_LookupRightUnlessScanFails ==
    result.op = "lookupName" =>
        IF ScanFails THEN result.kind = "raise" /\ result.exc = "ValueError"
        ELSE LookupRight(result)

C2_Witness ==
    /\ result.op = "lookupName"
    /\ name.kind = "dict"
    /\ result.kind = "return"
    /\ Cardinality(Carrying(result.arg[1])) = 2

\* C3: with the persistent name index missing, the scan of the molecule index is
\* started at most once, whatever lookupName calls are made.
C3_ScanAtMostOnce == ~nameExists => scans <= 1

\* C4: when open obtained no content-key handle, every lookupInchiKey raises ValueError.
C4_InchiUnavailable ==
    (result.op = "lookupInchiKey" /\ ~(inchiExists /\ kyotocabinet)) =>
        (result.kind = "raise" /\ result.exc = "ValueError")

\* C5: getDescriptors(i) has as many values as getDescriptorNames(False) has names;
\* value k is the value of the full row at the k-th column that is not a
\* calculation-status column, and name k is the name of that column.
C5_DataColumnsAgree ==
    /\ (result.op = "getDescriptors" /\ result.kind = "return" /\ ~result.arg[2]) =>
          LET full == getDescriptors(result.arg[1], TRUE).val
              names == getDescriptorNames(FALSE).val
          IN  /\ Len(result.val) = Len(names)
              /\ Len(result.val) = Len(DataPositions)
              /\ Len(result.val) <= Len(full)
              /\ \A k \in 1..Len(DataPositions) :
                    /\ result.val[k] = full[DataPositions[k]]
                    /\ names[k] = db.colnames[DataPositions[k]]
    /\ (result.op = "getDescriptorNames" /\ ~result.arg[1]) =>
          result.val = [k \in 1..Len(DataPositions) |-> db.colnames[DataPositions[k]]]

C5_Witness ==
    /\ result.op = "getDescriptors"
    /\ result.kind = "return"
    /\ ~result.arg[2]
    /\ Len(db.colnames) = 3
    /\ IsCalcStatus(db.colnames[1])
    /\ ~IsCalcStatus(db.colnames[2])
    /\ IsCalcStatus(db.colnames[3])

\* C6: close() returns without raising and leaves no handle open.
C6_CloseReleases == closed => (result.kind = "return" /\ open = {})

\* C7: getDescriptorCalculator always returns; it returns a calculator exactly when
\* the options blob has the descriptors field and the engine builds one, None
\* otherwise; and it changes nothing of the facade.
C7_CalculatorNeverRaises ==
    [][ result'.op = "getDescriptorCalculator" =>
          /\ result'.kind = "return"
          /\ IF optionsfile = "desc" /\ MakeGenerator = "builds"
             THEN result'.val.kind = "calculator"
             ELSE result'.val.kind = "None"
          /\ UNCHANGED <<cfgvars, selfvars>> ]_vars

C7_Witness ==
    /\ result.op = "getDescriptorCalculator"
    /\ optionsfile = "desc"
    /\ MakeGenerator = "raises"
    /\ result.kind = "return"
    /\ result.val.kind = "None"

\* a call to next that failed, other than by the end of the sequence
IterFailed(r) == r.op = "next" /\ r.kind = "raise" /\ r.exc # "StopIteration"

\* C8: once a call to next has failed at an ordinal, the following call to next on
\* the same iterator fails too.
C8_FailsPermanently ==
    [][ (IterFailed(result) /\ ncalls' = ncalls + 1) => IterFailed(result') ]_vars

\* C9: concurrent first lookups scan the molecule index exactly once, and every
\* caller finds every name the index holds.
C9_ScanOnceFullMapping ==
    /\ scans <= 1
    /\ \A t \in Threads :
          tres[t].op = "lookupName" => (scans = 1 /\ LookupRight(tres[t]))

\* m maps every name of the molecule index, and only those, to an ordinal carrying it
FullMapping(m) ==
    /\ DOMAIN m = Range(index.names)
    /\ \A nm \in Range(index.names) : m[nm] \in Carrying(nm)

\* what every call before close leaves alone, and how the name handle may change
FrameOfReads ==
    /\ UNCHANGED <<db, index, inchikey, options, datanames, dataindices, open>>
    /\ (name'.kind # name.kind \/ name' # name) =>
          /\ result'.op = "lookupName"
          /\ name.kind = "None"
          /\ name'.kind = "dict"
          /\ FullMapping(name'.map)
          /\ index.bad = {}
    /\ (result'.op = "lookupName" /\ result'.exc = "ValueError") => name' = name

\* C10 as stated: the frame of the read calls, and a lookupName whose name is not
\* found leaves the name handle unchanged.
C10_FrameNotFoundUnchanged ==
    [][ ~closed' =>
          /\ FrameOfReads
          /\ (result'.op = "lookupName" /\ result'.exc = "IndexError") => name' = name ]_vars

\* C10 amended: the frame of the read calls; the name handle changes only inside
\* lookupName, from unset to the full mapping, only when the scan succeeds, whether
\* or not the name looked up is then found.
C10_Frame == [][ ~closed' => FrameOfReads ]_vars

C10_Witness ==
    /\ result.op = "lookupName"
    /\ result.exc = "IndexError"
    /\ scans = 1
    /\ name.kind = "dict"
    /\ db.N = 2

====
